---- MODULE Spec2Model ----
(***************************************************************************)
(* Simulation drivers of the qutip examples: ex_JC_model.py (jc_integrate  *)
(* and its repeat loop), ex_25.py (compute, the temperature sweep) and     *)
(* spinchain.py (integrate).                                               *)
(*                                                                         *)
(* Scalars of the scripts (frequencies, rates, temperatures) are fixed     *)
(* point integers in units of 1/100.  Operators are sparse matrices whose  *)
(* entries are exact numbers sum_r c_r*sqrt(r), r a square-free integer    *)
(* (r = 1: rational part, r = -1: imaginary unit), so that products such   *)
(* as a.dag()*a and sy(n)*sy(n+1) are computed, not assumed.               *)
(***************************************************************************)
EXTENDS Integers, Sequences, FiniteSets, TLC

(* ------------------------------------------------------------------ *)
(* Exact numbers: a function from square-free radicands to non-zero    *)
(* integer coefficients.  The empty function is zero.                  *)
(* ------------------------------------------------------------------ *)
NumZero == [r \in {} |-> 0]

NumInt(c) == IF c = 0 THEN NumZero ELSE [r \in {1} |-> c]

NumOne == NumInt(1)

NumI == [r \in {-1} |-> 1]

Coef(x, r) == IF r \in DOMAIN x THEN x[r] ELSE 0

NumAdd(x, y) ==
    LET R == DOMAIN x \cup DOMAIN y
    IN  [r \in {q \in R : Coef(x, q) + Coef(y, q) # 0} |-> Coef(x, r) + Coef(y, r)]

NumScale(k, x) == IF k = 0 THEN NumZero ELSE [r \in DOMAIN x |-> k * x[r]]

NumConj(x) == [r \in DOMAIN x |-> IF r < 0 THEN -x[r] ELSE x[r]]

Abs(n) == IF n < 0 THEN -n ELSE n

RECURSIVE GCD(_, _)
GCD(m, n) == IF n = 0 THEN m ELSE GCD(n, m % n)

\* sqrt(r1)*sqrt(r2) = MonoFactor * sqrt(MonoRad), principal roots
MonoRad(r1, r2) ==
    LET g == GCD(Abs(r1), Abs(r2))
        m == (Abs(r1) \div g) * (Abs(r2) \div g)
    IN  IF (r1 < 0) # (r2 < 0) THEN -m ELSE m

MonoFactor(r1, r2) ==
    LET g == GCD(Abs(r1), Abs(r2))
    IN  IF r1 < 0 /\ r2 < 0 THEN -g ELSE g

RECURSIVE SumPairs(_, _, _)
SumPairs(P, x, y) ==
    IF P = {} THEN 0
    ELSE LET p == CHOOSE q \in P : TRUE
         IN  x[p[1]] * y[p[2]] * MonoFactor(p[1], p[2]) + SumPairs(P \ {p}, x, y)

NumMul(x, y) ==
    LET P == (DOMAIN x) \X (DOMAIN y)
        c(q) == SumPairs({p \in P : MonoRad(p[1], p[2]) = q}, x, y)
        R == {MonoRad(p[1], p[2]) : p \in P}
    IN  [r \in {q \in R : c(q) # 0} |-> c(r)]

\* sqrt(n) for a natural number n, as s*sqrt(f) with f square-free
NumSqrt(n) ==
    IF n = 0 THEN NumZero
    ELSE LET s == CHOOSE t \in 1..n :
                    /\ n % (t * t) = 0
                    /\ \A u \in (t + 1)..n : n % (u * u) # 0
         IN  [r \in {n \div (s * s)} |-> s]

(* ------------------------------------------------------------------ *)
(* Operators and states (Qobj): shape and the non-zero entries,        *)
(* indexed from 0.                                                     *)
(* ------------------------------------------------------------------ *)
Qobj(rows, cols, f) ==
    [shape |-> <<rows, cols>>, data |-> f]

Entry(A, i, j) == IF <<i, j>> \in DOMAIN A.data THEN A.data[<<i, j>>] ELSE NumZero

qzero(n) == Qobj(n, n, [p \in {} |-> NumZero])

qeye(n) == Qobj(n, n, [p \in {<<i, i>> : i \in 0..(n - 1)} |-> NumOne])

\* destroy(n)|k> = sqrt(k)|k-1>
destroy(n) == Qobj(n, n, [p \in {<<k - 1, k>> : k \in 1..(n - 1)} |-> NumSqrt(p[2])])

sigmax == Qobj(2, 2, [p \in {<<0, 1>>, <<1, 0>>} |-> NumOne])

sigmay == Qobj(2, 2, [p \in {<<0, 1>>, <<1, 0>>} |->
                        IF p = <<0, 1>> THEN NumScale(-1, NumI) ELSE NumI])

sigmaz == Qobj(2, 2, [p \in {<<0, 0>>, <<1, 1>>} |->
                        IF p = <<0, 0>> THEN NumOne ELSE NumInt(-1)])

basis(n, k) == Qobj(n, 1, [p \in {<<k, 0>>} |-> NumOne])

dag(A) ==
    Qobj(A.shape[2], A.shape[1],
         [p \in {<<q[2], q[1]>> : q \in DOMAIN A.data} |-> NumConj(A.data[<<p[2], p[1]>>])])

tensor2(A, B) ==
    LET rb == B.shape[1]
        cb == B.shape[2]
        P == (DOMAIN A.data) \X (DOMAIN B.data)
    IN  Qobj(A.shape[1] * rb, A.shape[2] * cb,
             [p \in {<<q[1][1] * rb + q[2][1], q[1][2] * cb + q[2][2]>> : q \in P} |->
                 NumMul(A.data[<<p[1] \div rb, p[2] \div cb>>],
                        B.data[<<p[1] % rb, p[2] % cb>>])])

RECURSIVE tensor(_)
tensor(ops) ==
    IF Len(ops) = 1 THEN ops[1]
    ELSE tensor2(tensor(SubSeq(ops, 1, Len(ops) - 1)), ops[Len(ops)])

QAdd(A, B) ==
    LET P == DOMAIN A.data \cup DOMAIN B.data
        v(p) == NumAdd(Entry(A, p[1], p[2]), Entry(B, p[1], p[2]))
    IN  Qobj(A.shape[1], A.shape[2], [p \in {q \in P : v(q) # NumZero} |-> v(p)])

QScale(s, A) ==
    Qobj(A.shape[1], A.shape[2],
         [p \in (IF s = 0 THEN {} ELSE DOMAIN A.data) |-> NumScale(s, A.data[p])])

RECURSIVE DotSum(_, _, _, _, _)
DotSum(A, B, i, k, J) ==
    IF J = {} THEN NumZero
    ELSE LET j == CHOOSE x \in J : TRUE
         IN  NumAdd(NumMul(A.data[<<i, j>>], B.data[<<j, k>>]),
                    DotSum(A, B, i, k, J \ {j}))

QMul(A, B) ==
    LET mid(i, k) == {p[2] : p \in {q \in DOMAIN A.data :
                                      q[1] = i /\ <<q[2], k>> \in DOMAIN B.data}}
        v(p) == DotSum(A, B, p[1], p[2], mid(p[1], p[2]))
        P == {<<pq[1][1], pq[2][2]>> :
                 pq \in {x \in (DOMAIN A.data) \X (DOMAIN B.data) : x[1][2] = x[2][1]}}
    IN  Qobj(A.shape[1], B.shape[2], [p \in {q \in P : v(q) # NumZero} |-> v(p)])

\* <psi| O |psi> for a ket psi
expect(oper, state) == Entry(QMul(dag(state), QMul(oper, state)), 0, 0)

(* ------------------------------------------------------------------ *)
(* Script scalars: fixed point, units of 1/100.                        *)
(* ------------------------------------------------------------------ *)
FxMul(x, y) == (x * y) \div 100

RECURSIVE ISqrtIn(_, _, _)
ISqrtIn(n, lo, hi) ==
    IF lo >= hi THEN lo
    ELSE LET mid == (lo + hi + 1) \div 2
         IN  IF mid * mid <= n THEN ISqrtIn(n, mid, hi) ELSE ISqrtIn(n, lo, mid - 1)

\* sqrt of a positive fixed-point number, rounded down
FxSqrt(x) == ISqrtIn(x * 100, 0, IF x * 100 < 40000 THEN x * 100 ELSE 40000)

Range(s) == {s[i] : i \in DOMAIN s}

(* ------------------------------------------------------------------ *)
(* State: one frame per function, the script's globals, and the log    *)
(* of the calls made to the external solvers.                          *)
(* ------------------------------------------------------------------ *)
VARIABLES
    jc,       \* frame of jc_integrate (ex_JC_model.py)
    script,   \* module level of ex_JC_model.py: loop index n and nc, na
    cmp,      \* frame of compute (ex_25.py)
    chain,    \* frame of integrate (spinchain.py)
    calls     \* solver calls made so far, oldest first

vars == <<jc, script, cmp, chain, calls>>

NoQobj == Qobj(0, 0, [p \in {} |-> NumZero])

NoOutput == [expect |-> <<>>]

(* Bounds of the explored inputs *)
MaxN == 3
MaxSample == 1
MaxK == 3
MaxSites == 3

(* Constants of the scripts *)
ScriptN == 20
ScriptWc == 628
ScriptWa == 628
ScriptG == 31
ScriptKappa == 5
ScriptGamma == 25
Repeats == 20

(* ------------------------------------------------------------------ *)
(* ex_JC_model.py                                                      *)
(* ------------------------------------------------------------------ *)
JCFrame(N, wc, wa, g, kappa, gamma, psi0, use_rwa) ==
    [pc |-> "operators",
     N |-> N, wc |-> wc, wa |-> wa, g |-> g, kappa |-> kappa, gamma |-> gamma,
     psi0 |-> psi0, use_rwa |-> use_rwa,
     a |-> NoQobj, sm |-> NoQobj, H |-> NoQobj,
     c_op_list |-> <<>>, output |-> NoOutput, ret |-> <<>>]

JCIdle == [JCFrame(0, 0, 0, 0, 0, 0, NoQobj, FALSE) EXCEPT !.pc = "idle"]

ScriptIdle == [pc |-> "none", n |-> 0, nc |-> <<>>, na |-> <<>>]

\* lines 12-16
jc_a(N) == tensor(<<destroy(N), qeye(2)>>)

jc_sm(N) == tensor(<<qeye(N), destroy(2)>>)

jc_H_mixed(a, sm, wc, wa, g, use_rwa) ==
    LET free == QAdd(QMul(QScale(wc, dag(a)), a), QMul(QScale(wa, dag(sm)), sm))
    IN  IF use_rwa
        THEN QAdd(free, QMul(QScale(g, QAdd(dag(a), a)), QAdd(sm, dag(sm))))
        ELSE QAdd(free, QMul(QScale(g, QAdd(dag(a), a)), QAdd(sm, dag(sm))))

\* lines 18-22
jc_H(a, sm, wc, wa, g, use_rwa) ==
    LET free == QAdd(QMul(QScale(wc, dag(a)), a), QMul(QScale(wa, dag(sm)), sm))
    IN  IF use_rwa
        THEN QAdd(free, QScale(g, QAdd(QMul(dag(a), sm), QMul(a, dag(sm)))))
        ELSE QAdd(free, QMul(QScale(g, QAdd(dag(a), a)), QAdd(sm, dag(sm))))

Gate_nonneg(c_op_list, rate, op) ==
    IF rate >= 0 THEN Append(c_op_list, QScale(FxSqrt(rate), op)) ELSE c_op_list

\* the rate gate: if rate > 0.0: c_op_list.append(sqrt(rate) * op)
Gate(c_op_list, rate, op) ==
    IF rate > 0 THEN Append(c_op_list, QScale(FxSqrt(rate), op)) ELSE c_op_list

\* lines 25-39; n_th_a = 0.0
jc_n_th_a == 0

jc_collapse(a, sm, kappa, gamma) ==
    LET l0 == <<>>
        l1 == Gate(l0, FxMul(kappa, 100 + jc_n_th_a), a)
        l2 == Gate(l1, FxMul(kappa, jc_n_th_a), dag(a))
        l3 == Gate(l2, gamma, sm)
    IN  l3

\* The external stochastic solver: per observable a series whose first point
\* is the expectation in the initial state and whose later points are the
\* trajectory averages, here one sampled value.
mcsolve_expect(psi0, e_ops, samples) ==
    [k \in DOMAIN e_ops |-> <<expect(e_ops[k], psi0), samples[k]>>]

\* line 45: the arguments passed, by position
jc_solver_call == [solver |-> "mcsolve",
                   args |-> <<"H", "psi0", "tlist", "c_op_list", "expt_ops">>,
                   ntraj |-> <<>>]

JCOperators ==
    /\ jc.pc = "operators"
    /\ jc' = [jc EXCEPT !.a = jc_a(jc.N), !.sm = jc_sm(jc.N), !.pc = "hamiltonian"]
    /\ UNCHANGED <<script, cmp, chain, calls>>

JCHamiltonian ==
    /\ jc.pc = "hamiltonian"
    /\ jc' = [jc EXCEPT !.H = jc_H(jc.a, jc.sm, jc.wc, jc.wa, jc.g, jc.use_rwa),
                        !.pc = "collapse"]
    /\ UNCHANGED <<script, cmp, chain, calls>>

JCCollapse ==
    /\ jc.pc = "collapse"
    /\ jc' = [jc EXCEPT !.c_op_list = jc_collapse(jc.a, jc.sm, jc.kappa, jc.gamma),
                        !.pc = "solve"]
    /\ UNCHANGED <<script, cmp, chain, calls>>

JCSolve ==
    /\ jc.pc = "solve"
    /\ \E s0, s1 \in 0..MaxSample :
          jc' = [jc EXCEPT
                   !.output = [expect |->
                       mcsolve_expect(jc.psi0,
                                      <<QMul(dag(jc.a), jc.a), QMul(dag(jc.sm), jc.sm)>>,
                                      <<NumInt(s0), NumInt(s1)>>)],
                   !.pc = "return"]
    /\ calls' = Append(calls, jc_solver_call)
    /\ UNCHANGED <<script, cmp, chain>>

\* line 47
JCReturn ==
    /\ jc.pc = "return"
    /\ jc' = [jc EXCEPT !.ret = <<jc.output.expect[1], jc.output.expect[2]>>,
                        !.pc = "done"]
    /\ UNCHANGED <<script, cmp, chain, calls>>

\* lines 52-67 and the loop of lines 70-71
script_psi0 == tensor(<<basis(ScriptN, ScriptN - 1), basis(2, 0)>>)

ScriptCall ==
    /\ script.pc = "loop"
    /\ script.n < Repeats
    /\ jc' = JCFrame(ScriptN, ScriptWc, ScriptWa, ScriptG, ScriptKappa, ScriptGamma,
                     script_psi0, TRUE)
    /\ script' = [script EXCEPT !.pc = "in_call"]
    /\ UNCHANGED <<cmp, chain, calls>>

ScriptAssign_first ==
    /\ script.pc = "in_call"
    /\ jc.pc = "done"
    /\ script' = [script EXCEPT !.nc = IF script.n = 0 THEN jc.ret[1] ELSE @,
                                !.na = IF script.n = 0 THEN jc.ret[2] ELSE @,
                                !.n = script.n + 1, !.pc = "loop"]
    /\ UNCHANGED <<jc, cmp, chain, calls>>

\* line 71: nc, na = jc_integrate(...)
ScriptAssign ==
    /\ script.pc = "in_call"
    /\ jc.pc = "done"
    /\ script' = [script EXCEPT !.nc = jc.ret[1], !.na = jc.ret[2],
                                !.n = script.n + 1, !.pc = "loop"]
    /\ UNCHANGED <<jc, cmp, chain, calls>>

ScriptPlot ==
    /\ script.pc = "loop"
    /\ script.n = Repeats
    /\ script' = [script EXCEPT !.pc = "plot"]
    /\ UNCHANGED <<jc, cmp, chain, calls>>

(* ------------------------------------------------------------------ *)
(* ex_25.py                                                            *)
(* ------------------------------------------------------------------ *)
\* Saturation value of the fixed-point range (floating point inf)
FxInf == 10000 * 100

\* x / y; a division by zero yields a signed infinity (numpy scalars)
FxDiv(x, y) ==
    IF y = 0 THEN (IF x < 0 THEN -FxInf ELSE FxInf) ELSE (x * 100) \div y

RECURSIVE FxExpInt(_, _)
\* v * e^k for an integer k >= 0, saturating
FxExpInt(v, k) ==
    IF k = 0 \/ v >= FxInf THEN (IF v >= FxInf THEN FxInf ELSE v)
    ELSE FxExpInt((v * 272) \div 100, k - 1)

\* e^x: Taylor series on the fractional part, repeated product on the integer
\* part; e^(-x) = 1 / e^x
FxExp(x) ==
    LET y == IF x < 0 THEN -x ELSE x
        f == y % 100
        k == IF y \div 100 > 20 THEN 20 ELSE y \div 100
        e == FxExpInt(100 + f + (f * f) \div 200 + (f * f * f) \div 60000, k)
    IN  IF x < 0 THEN 10000 \div e ELSE e

\* line 33: w_th = kB * (T * 1e-3) / hbar * 1e-9, kB/hbar*1e-12 = 0.1309
cmp_w_th(T) == FxMul(13, T)

\* lines 39, 48: 1.0 / (exp(w / w_th) - 1.0)
cmp_bose(w, w_th) ==
    LET e == FxExp(FxDiv(w, w_th))
    IN  IF e = 100 THEN FxInf ELSE 10000 \div (e - 100)

\* lines 21-22
cmp_a(N_r, N_m) == tensor(<<destroy(N_r), qeye(N_m)>>)

cmp_b(N_r, N_m) == tensor(<<qeye(N_r), destroy(N_m)>>)

\* lines 25-26
cmp_H(a, b, w_r, w_m, g, w_d, A) ==
    QAdd(QAdd(QAdd(QMul(QScale(w_r - w_d, dag(a)), a),
                   QMul(QScale(w_m, dag(b)), b)),
              QMul(QMul(QScale(g, dag(a)), a), QAdd(b, dag(b)))),
         QScale(FxMul(50, A), QAdd(a, dag(a))))

\* A cell of the result table: a number, or the value of an external call
Val(v) == <<"val", v>>

\* line 28: zeros((len(T_vec), 4))
cmp_zeros(K) == [i \in 1..K |-> [c \in 1..4 |-> Val(0)]]

cmp_c_ops_keep(c_ops) == c_ops

\* line 36: c_ops = []
cmp_c_ops_init(c_ops) == <<>>

\* lines 36-54
cmp_collapse(c_ops, a, b, kappa_r, kappa_m, n_r_th, n_m_th) ==
    LET l0 == cmp_c_ops_init(c_ops)
        l1 == Gate(l0, FxMul(kappa_r, 100 + n_r_th), a)
        l2 == Gate(l1, FxMul(kappa_r, n_r_th), dag(a))
        l3 == Gate(l2, FxMul(kappa_m, 100 + n_m_th), b)
        l4 == Gate(l3, FxMul(kappa_m, n_m_th), dag(b))
    IN  l4

\* The external steady-state solver and expectation value: the results are
\* determined by the arguments and are kept as terms over them.
steadystate(H, c_ops) == <<"steadystate", H, c_ops>>

expect_rho(rho, oper) == <<"expect", rho, oper>>

NoRho == <<"none">>

CmpFrame(T_vec, N_r, N_m, w_r, w_m, g, w_d, A, kappa_r, kappa_m) ==
    [pc |-> "operators",
     T_vec |-> T_vec, N_r |-> N_r, N_m |-> N_m, w_r |-> w_r, w_m |-> w_m, g |-> g,
     w_d |-> w_d, A |-> A, kappa_r |-> kappa_r, kappa_m |-> kappa_m,
     a |-> NoQobj, b |-> NoQobj, H |-> NoQobj,
     photon_count |-> <<>>, writes |-> <<>>,
     it |-> 0, idx |-> 0, T |-> 0, w_th |-> 0, n_r_th |-> 0, n_m_th |-> 0,
     c_ops |-> <<>>, rho_ss |-> NoRho,
     raised_at |-> 0,       \* source line of the call that raised, 0 if none
     ret |-> <<>>]

CmpIdle == [CmpFrame(<<>>, 0, 0, 0, 0, 0, 0, 0, 0, 0) EXCEPT !.pc = "idle"]

ComputeOperators ==
    /\ cmp.pc = "operators"
    /\ cmp' = [cmp EXCEPT !.a = cmp_a(cmp.N_r, cmp.N_m), !.b = cmp_b(cmp.N_r, cmp.N_m),
                          !.pc = "hamiltonian"]
    /\ UNCHANGED <<jc, script, chain, calls>>

\* lines 25-28
ComputeHamiltonian ==
    /\ cmp.pc = "hamiltonian"
    /\ cmp' = [cmp EXCEPT !.H = cmp_H(cmp.a, cmp.b, cmp.w_r, cmp.w_m, cmp.g, cmp.w_d, cmp.A),
                          !.photon_count = cmp_zeros(Len(cmp.T_vec)),
                          !.writes = [i \in 1..Len(cmp.T_vec) |-> [c \in 1..4 |-> 0]],
                          !.pc = "loop"]
    /\ UNCHANGED <<jc, script, chain, calls>>

\* line 30: for idx, T in enumerate(T_vec)
ComputeLoop ==
    /\ cmp.pc = "loop"
    /\ cmp' = IF cmp.it < Len(cmp.T_vec)
              THEN [cmp EXCEPT !.idx = cmp.it, !.T = cmp.T_vec[cmp.it + 1],
                               !.it = cmp.it + 1, !.pc = "collapse"]
              ELSE [cmp EXCEPT !.pc = "return"]
    /\ UNCHANGED <<jc, script, chain, calls>>

\* lines 33-54
ComputeCollapse ==
    /\ cmp.pc = "collapse"
    /\ LET w_th == cmp_w_th(cmp.T)
           n_r_th == cmp_bose(cmp.w_r, w_th)
           n_m_th == cmp_bose(cmp.w_m, w_th)
       IN  cmp' = [cmp EXCEPT !.w_th = w_th, !.n_r_th = n_r_th, !.n_m_th = n_m_th,
                        !.c_ops = cmp_collapse(cmp.c_ops, cmp.a, cmp.b, cmp.kappa_r,
                                               cmp.kappa_m, n_r_th, n_m_th),
                        !.pc = "steadystate"]
    /\ UNCHANGED <<jc, script, chain, calls>>

cmp_solver_call(idx) ==
    [solver |-> "steadystate", args |-> <<"H", "c_ops">>, ntraj |-> <<>>, point |-> idx]

ComputeSteadyState_swallow ==
    /\ cmp.pc = "steadystate"
    /\ calls' = Append(calls, cmp_solver_call(cmp.idx))
    /\ \/ cmp' = [cmp EXCEPT !.rho_ss = steadystate(cmp.H, cmp.c_ops), !.pc = "write_r"]
       \/ cmp' = [cmp EXCEPT !.pc = "loop"]
    /\ UNCHANGED <<jc, script, chain>>

\* line 57; the solver returns or raises
ComputeSteadyState ==
    /\ cmp.pc = "steadystate"
    /\ calls' = Append(calls, cmp_solver_call(cmp.idx))
    /\ \/ cmp' = [cmp EXCEPT !.rho_ss = steadystate(cmp.H, cmp.c_ops), !.pc = "write_r"]
       \/ cmp' = [cmp EXCEPT !.pc = "raised", !.raised_at = 57]
    /\ UNCHANGED <<jc, script, chain>>

\* photon_count[idx, col] = v
cmp_store(f, col, v) ==
    [f EXCEPT !.photon_count[f.idx + 1][col + 1] = v,
              !.writes[f.idx + 1][col + 1] = @ + 1]

\* lines 60-61; expect returns or raises
cmp_write_r(f) ==
    cmp_store(cmp_store(f, 0, expect_rho(f.rho_ss, QMul(dag(f.a), f.a))), 1, Val(f.n_r_th))

ComputeWriteR ==
    /\ cmp.pc = "write_r"
    /\ \/ cmp' = [cmp_write_r(cmp) EXCEPT !.pc = "write_m"]
       \/ cmp' = [cmp EXCEPT !.pc = "raised", !.raised_at = 60]
    /\ UNCHANGED <<jc, script, chain, calls>>

cmp_write_m_copy(f) ==
    cmp_store(cmp_store(f, 2, expect_rho(f.rho_ss, QMul(dag(f.b), f.b))), 3, Val(f.n_r_th))

\* lines 62-63; expect returns or raises
cmp_write_m(f) ==
    cmp_store(cmp_store(f, 2, expect_rho(f.rho_ss, QMul(dag(f.b), f.b))), 3, Val(f.n_m_th))

ComputeWriteM ==
    /\ cmp.pc = "write_m"
    /\ \/ cmp' = [cmp_write_m(cmp) EXCEPT !.pc = "loop"]
       \/ cmp' = [cmp EXCEPT !.pc = "raised", !.raised_at = 62]
    /\ UNCHANGED <<jc, script, chain, calls>>

\* line 65
ComputeReturn ==
    /\ cmp.pc = "return"
    /\ cmp' = [cmp EXCEPT !.ret = cmp.photon_count, !.pc = "done"]
    /\ UNCHANGED <<jc, script, chain, calls>>

(* ------------------------------------------------------------------ *)
(* spinchain.py                                                        *)
(* ------------------------------------------------------------------ *)
chain_site_op_reversed(op, n, N) ==
    tensor([m \in 1..N |-> IF m = N - n THEN op ELSE qeye(2)])

\* lines 37-48: op_list = [si]*N; op_list[n] = op; tensor(op_list)
chain_site_op(op, n, N) == tensor([m \in 1..N |-> IF m = n + 1 THEN op ELSE qeye(2)])

\* lines 32-48
chain_op_list(op, N) == [n \in 1..N |-> chain_site_op(op, n - 1, N)]

RECURSIVE chain_energy(_, _, _, _, _)
\* lines 54-55
chain_energy(H, n, N, h, sz_list) ==
    IF n >= N THEN H
    ELSE chain_energy(QAdd(H, QScale(FxMul(-50, h[n + 1]), sz_list[n + 1])),
                      n + 1, N, h, sz_list)

\* lines 58-61: the range of the interaction loop
chain_bonds(N) == N - 1

\* the site coupled to site n
chain_neighbour(n, N) == n + 1

RECURSIVE chain_interaction(_, _, _, _, _, _, _, _, _)
\* lines 58-61
chain_interaction(H, n, N, Jx, Jy, Jz, sx_list, sy_list, sz_list) ==
    IF n >= chain_bonds(N) THEN H
    ELSE LET m  == chain_neighbour(n, N)
             H1 == QAdd(H, QMul(QScale(FxMul(-50, Jx[n + 1]), sx_list[n + 1]), sx_list[m + 1]))
             H2 == QAdd(H1, QMul(QScale(FxMul(-50, Jy[n + 1]), sy_list[n + 1]), sy_list[m + 1]))
             H3 == QAdd(H2, QMul(QScale(FxMul(-50, Jz[n + 1]), sz_list[n + 1]), sz_list[m + 1]))
         IN  chain_interaction(H3, n + 1, N, Jx, Jy, Jz, sx_list, sy_list, sz_list)

RECURSIVE Pow2(_)
Pow2(n) == IF n = 0 THEN 1 ELSE 2 * Pow2(n - 1)

\* lines 51-61; H = 0 is the zero operator of the chain
chain_H(N, h, Jx, Jy, Jz, sx_list, sy_list, sz_list) ==
    chain_interaction(chain_energy(qzero(Pow2(N)), 0, N, h, sz_list),
                      0, N, Jx, Jy, Jz, sx_list, sy_list, sz_list)

RECURSIVE chain_dephasing(_, _, _, _, _)
\* lines 65-70
chain_dephasing(c_op_list, n, N, gamma, sz_list) ==
    IF n >= N THEN c_op_list
    ELSE chain_dephasing(Gate(c_op_list, gamma[n + 1], sz_list[n + 1]),
                         n + 1, N, gamma, sz_list)

\* line 76
chain_ntraj == 250

chain_solver_call_default(solver) ==
    IF solver = "mc"
    THEN <<[solver |-> "mcsolve",
            args |-> <<"H", "psi0", "tlist", "ntraj", "c_op_list", "sz_list">>,
            ntraj |-> <<chain_ntraj>>]>>
    ELSE <<[solver |-> "me_ode_solve",
            args |-> <<"H", "psi0", "tlist", "c_op_list", "sz_list">>,
            ntraj |-> <<>>]>>

\* lines 73-77: the solver call made for a value of solver, if any
chain_solver_call(solver) ==
    IF solver = "ode"
    THEN <<[solver |-> "me_ode_solve",
            args |-> <<"H", "psi0", "tlist", "c_op_list", "sz_list">>,
            ntraj |-> <<>>]>>
    ELSE IF solver = "mc"
    THEN <<[solver |-> "mcsolve",
            args |-> <<"H", "psi0", "tlist", "ntraj", "c_op_list", "sz_list">>,
            ntraj |-> <<chain_ntraj>>]>>
    ELSE <<>>

\* The external solvers: per observable the expectation in the initial state,
\* then the later points, here one value.
solver_expect(by, psi0, e_ops, sample) ==
    [by |-> by,
     expect |-> [k \in DOMAIN e_ops |-> <<expect(e_ops[k], psi0), NumInt(sample)>>]]

ChainFrame(N, h, Jx, Jy, Jz, psi0, gamma, solver) ==
    [pc |-> "operators",
     N |-> N, h |-> h, Jx |-> Jx, Jy |-> Jy, Jz |-> Jz, psi0 |-> psi0,
     gamma |-> gamma, solver |-> solver,
     sx_list |-> <<>>, sy_list |-> <<>>, sz_list |-> <<>>,
     H |-> NoQobj, c_op_list |-> <<>>,
     expt_list |-> <<>>,    \* empty while the local is unbound, else <<value>>
     ret |-> <<>>]

ChainIdle == [ChainFrame(0, <<>>, <<>>, <<>>, <<>>, NoQobj, <<>>, "") EXCEPT !.pc = "idle"]

\* lines 27-48
ChainOperators ==
    /\ chain.pc = "operators"
    /\ chain' = [chain EXCEPT !.sx_list = chain_op_list(sigmax, chain.N),
                              !.sy_list = chain_op_list(sigmay, chain.N),
                              !.sz_list = chain_op_list(sigmaz, chain.N),
                              !.pc = "hamiltonian"]
    /\ UNCHANGED <<jc, script, cmp, calls>>

\* lines 51-61
ChainHamiltonian ==
    /\ chain.pc = "hamiltonian"
    /\ chain' = [chain EXCEPT !.H = chain_H(chain.N, chain.h, chain.Jx, chain.Jy, chain.Jz,
                                            chain.sx_list, chain.sy_list, chain.sz_list),
                              !.pc = "collapse"]
    /\ UNCHANGED <<jc, script, cmp, calls>>

\* lines 65-70
ChainCollapse ==
    /\ chain.pc = "collapse"
    /\ chain' = [chain EXCEPT !.c_op_list = chain_dephasing(<<>>, 0, chain.N, chain.gamma,
                                                            chain.sz_list),
                              !.pc = "solve"]
    /\ UNCHANGED <<jc, script, cmp, calls>>

\* lines 73-77
ChainSolve ==
    /\ chain.pc = "solve"
    /\ LET made == chain_solver_call(chain.solver)
       IN  /\ calls' = calls \o made
           /\ IF made = <<>>
              THEN chain' = [chain EXCEPT !.pc = "return"]
              ELSE \E v \in 0..MaxSample :
                     chain' = [chain EXCEPT
                                 !.expt_list = <<solver_expect(made[1].solver, chain.psi0,
                                                               chain.sz_list, v)>>,
                                 !.pc = "return"]
    /\ UNCHANGED <<jc, script, cmp>>

\* line 79: return expt_list; an unbound local raises
ChainReturn ==
    /\ chain.pc = "return"
    /\ chain' = IF chain.expt_list = <<>>
                THEN [chain EXCEPT !.pc = "raised"]
                ELSE [chain EXCEPT !.ret = chain.expt_list, !.pc = "done"]
    /\ UNCHANGED <<jc, script, cmp, calls>>

\* lines 100-104: first spin in state |1>, the rest in state |0>
chain_psi0(N) == tensor([m \in 1..N |-> IF m = 1 THEN basis(2, 1) ELSE basis(2, 0)])

InitChain ==
    /\ \E N \in 1..MaxSites :
       \E h \in {[n \in 1..N |-> 628], [n \in 1..N |-> 100 * n]},
          Jx \in {[n \in 1..N |-> 62], [n \in 1..N |-> 10 * n]},
          Jy \in {[n \in 1..N |-> 62], [n \in 1..N |-> 20 * n]},
          Jz \in {[n \in 1..N |-> 0], [n \in 1..N |-> 30 * n]},
          gamma \in {[n \in 1..N |-> 1], [n \in 1..N |-> 0], [n \in 1..N |-> (n % 3) - 1]},
          solver \in {"ode", "mc", "rk"} :
          chain = ChainFrame(N, h, Jx, Jy, Jz, chain_psi0(N), gamma, solver)
    /\ jc = JCIdle
    /\ script = ScriptIdle
    /\ cmp = CmpIdle
    /\ calls = <<>>

NextChain ==
    ChainOperators \/ ChainHamiltonian \/ ChainCollapse \/ ChainSolve \/ ChainReturn

SpecChain == InitChain /\ [][NextChain]_vars

\* Temperatures of the explored sweeps
TVals == {-2500, 0, 2500, 5000}

RECURSIVE SeqsUpTo(_, _)
SeqsUpTo(S, n) ==
    IF n = 0 THEN {<<>>}
    ELSE LET shorter == SeqsUpTo(S, n - 1)
         IN  shorter \cup {Append(q, x) : q \in shorter, x \in S}

InitCompute ==
    /\ \E T_vec \in SeqsUpTo(TVals, MaxK), kappa_r \in {0, 5} :
          cmp = CmpFrame(T_vec, 2, 2, 314, 157, 6, 314 - 157, 63, kappa_r, 5)
    /\ jc = JCIdle
    /\ script = ScriptIdle
    /\ chain = ChainIdle
    /\ calls = <<>>

NextCompute ==
    \/ ComputeOperators \/ ComputeHamiltonian \/ ComputeLoop \/ ComputeCollapse
    \/ ComputeSteadyState \/ ComputeWriteR \/ ComputeWriteM \/ ComputeReturn

SpecCompute == InitCompute /\ [][NextCompute]_vars

\* A single call of jc_integrate with arguments from the explored sets
InitJC ==
    /\ \E N \in 2..MaxN, wc \in {0, 628}, wa \in {500, 628}, g \in {0, 31},
          kappa \in {-5, 0, 5}, gamma \in {-25, 0, 25}, use_rwa \in BOOLEAN,
          k \in {0, 1}, s \in {0, 1} :
          jc = JCFrame(N, wc, wa, g, kappa, gamma,
                       tensor(<<basis(N, k * (N - 1)), basis(2, s)>>), use_rwa)
    /\ script = ScriptIdle
    /\ cmp = CmpIdle
    /\ chain = ChainIdle
    /\ calls = <<>>

\* The script ex_JC_model.py
InitRabi ==
    /\ jc = JCIdle
    /\ script = [pc |-> "loop", n |-> 0, nc |-> <<>>, na |-> <<>>]
    /\ cmp = CmpIdle
    /\ chain = ChainIdle
    /\ calls = <<>>

NextJC == JCOperators \/ JCHamiltonian \/ JCCollapse \/ JCSolve \/ JCReturn

NextRabi == NextJC \/ ScriptCall \/ ScriptAssign \/ ScriptPlot

SpecJC == InitJC /\ [][NextJC]_vars

SpecRabi == InitRabi /\ [][NextRabi]_vars

\* Any of the programs
Init == InitJC \/ InitRabi \/ InitCompute \/ InitChain

Next == NextRabi \/ NextCompute \/ NextChain

Spec == Init /\ [][Next]_vars

(* ------------------------------------------------------------------ *)
(* Properties                                                          *)
(* ------------------------------------------------------------------ *)
Cand(rate, op) == [rate |-> rate, op |-> op]

\* A collapse list against its candidate terms: one entry sqrt(rate)*op for
\* each candidate with rate > 0, nothing else, and no zero entry.
RateGated(list, cands) ==
    /\ Len(list) = Cardinality({k \in DOMAIN cands : cands[k].rate > 0})
    /\ \A k \in DOMAIN cands :
          cands[k].rate > 0 =>
             \E i \in DOMAIN list : list[i] = QScale(FxSqrt(cands[k].rate), cands[k].op)
    /\ \A i \in DOMAIN list :
          /\ list[i].data # NoQobj.data
          /\ \E k \in DOMAIN cands :
                /\ cands[k].rate > 0
                /\ list[i] = QScale(FxSqrt(cands[k].rate), cands[k].op)

JCCands ==
    <<Cand(FxMul(jc.kappa, 100), jc_a(jc.N)),
      Cand(0, dag(jc_a(jc.N))),
      Cand(jc.gamma, jc_sm(jc.N))>>

CmpCands ==
    LET w_th == cmp_w_th(cmp.T_vec[cmp.idx + 1])
        n_r  == cmp_bose(cmp.w_r, w_th)
        n_m  == cmp_bose(cmp.w_m, w_th)
    IN  <<Cand(FxMul(cmp.kappa_r, 100 + n_r), cmp.a),
          Cand(FxMul(cmp.kappa_r, n_r), dag(cmp.a)),
          Cand(FxMul(cmp.kappa_m, 100 + n_m), cmp.b),
          Cand(FxMul(cmp.kappa_m, n_m), dag(cmp.b))>>

ChainCands == [n \in 1..chain.N |-> Cand(chain.gamma[n], chain.sz_list[n])]

\* C1: in jc_integrate, compute and integrate the assembled collapse list
\* holds sqrt(r)*O exactly for the candidate terms with r > 0; a term with
\* r <= 0 contributes no entry, so no entry is zero and the length of the
\* list is the number of strictly positive rates.
C1_RateGate ==
    /\ jc.pc \in {"solve", "return", "done"} => RateGated(jc.c_op_list, JCCands)
    /\ cmp.pc \in {"steadystate", "write_r", "write_m"} => RateGated(cmp.c_ops, CmpCands)
    /\ chain.pc \in {"solve", "return", "done", "raised"} =>
          RateGated(chain.c_op_list, ChainCands)

C1_Witness ==
    /\ chain.pc = "solve"
    /\ chain.N = 3
    /\ chain.gamma = <<0, 1, -1>>
    /\ Len(chain.c_op_list) = 1

\* Position of the basis state |n, s> of cavity (x) atom
JCIndex(n, s) == 2 * n + s

\* Total excitation number n + s of the basis state with index i
JCExcitation(i) == (i \div 2) + (i % 2)

\* wc*n + wa*s on the diagonal
JCFreeEntries(N, wc, wa) ==
    [p \in {<<i, i>> : i \in {j \in 0..(2 * N - 1) : wc * (j \div 2) + wa * (j % 2) # 0}} |->
        NumInt(wc * (p[1] \div 2) + wa * (p[1] % 2))]

\* g*sqrt(n+1) between |n,1> and |n+1,0>
JCRwaEntries(N, g) ==
    [p \in (IF g = 0 THEN {} ELSE
            UNION {{<<JCIndex(n + 1, 0), JCIndex(n, 1)>>, <<JCIndex(n, 1), JCIndex(n + 1, 0)>>} :
                     n \in 0..(N - 2)}) |->
        NumScale(g, NumSqrt((IF p[1] > p[2] THEN p[1] ELSE p[2]) \div 2))]

\* g*sqrt(n+1) between |n,0> and |n+1,1>
JCCounterEntries(N, g) ==
    [p \in (IF g = 0 THEN {} ELSE
            UNION {{<<JCIndex(n + 1, 1), JCIndex(n, 0)>>, <<JCIndex(n, 0), JCIndex(n + 1, 1)>>} :
                     n \in 0..(N - 2)}) |->
        NumScale(g, NumSqrt((IF p[1] > p[2] THEN p[1] ELSE p[2]) \div 2))]

\* C5: use_rwa selects exactly one coupling: with use_rwa the Hamiltonian is
\* the free part plus g*(a'sm + a sm') and links only states of equal n + s;
\* without it the coupling g*(a' + a)(sm + sm') also holds the non-conserving
\* terms; for g = 0 both choices give the same Hamiltonian.
C5_RwaSelect ==
    jc.pc \in {"collapse", "solve", "return", "done"} =>
       LET free == JCFreeEntries(jc.N, jc.wc, jc.wa)
           rwa == JCRwaEntries(jc.N, jc.g)
           counter == JCCounterEntries(jc.N, jc.g)
       IN  /\ jc.H.shape = <<2 * jc.N, 2 * jc.N>>
           /\ jc.use_rwa =>
                 /\ jc.H.data = free @@ rwa
                 /\ \A p \in DOMAIN jc.H.data : JCExcitation(p[1]) = JCExcitation(p[2])
           /\ ~jc.use_rwa =>
                 /\ jc.H.data = free @@ rwa @@ counter
                 /\ jc.g # 0 =>
                       \E p \in DOMAIN jc.H.data : JCExcitation(p[1]) # JCExcitation(p[2])
           /\ jc.g = 0 =>
                 /\ jc.H = jc_H(jc.a, jc.sm, jc.wc, jc.wa, jc.g, TRUE)
                 /\ jc.H = jc_H(jc.a, jc.sm, jc.wc, jc.wa, jc.g, FALSE)

C5_Witness ==
    /\ jc.pc = "collapse"
    /\ jc.N = 3
    /\ jc.use_rwa
    /\ jc.g # 0
    /\ <<JCIndex(2, 0), JCIndex(1, 1)>> \in DOMAIN jc.H.data

\* C7: every call of the stochastic solver passes a number of trajectories,
\* and no call of the deterministic solver does.
C7_TrialCountSupplied ==
    \A i \in DOMAIN calls :
       /\ calls[i].solver = "mcsolve" =>
             "ntraj" \in Range(calls[i].args) /\ calls[i].ntraj # <<>>
       /\ calls[i].solver = "me_ode_solve" =>
             "ntraj" \notin Range(calls[i].args) /\ calls[i].ntraj = <<>>

\* C8: in the script's scenario the initial state psi0 passed to jc_integrate
\* has cavity occupation a'a = 0 and atom excitation sm'sm = 1, which are the
\* values of the two series at the first time point.
C8_InitialState ==
    (script.pc = "in_call" /\ jc.pc \in {"return", "done"}) =>
       /\ expect(QMul(dag(jc.a), jc.a), jc.psi0) = NumZero
       /\ expect(QMul(dag(jc.sm), jc.sm), jc.psi0) = NumOne
       /\ jc.output.expect[1][1] = NumZero
       /\ jc.output.expect[2][1] = NumOne

\* C10: the 20 runs of the script follow one another, each run starts from a
\* fresh frame and builds its own Hamiltonian and collapse list, and after the
\* loop nc, na are the output of the last run alone.
C10_LastRunOnly ==
    /\ script.pc \in {"loop", "in_call", "plot"} =>
          /\ script.n \in 0..Repeats
          /\ Len(calls) = script.n +
                (IF script.pc = "in_call" /\ jc.pc \in {"return", "done"} THEN 1 ELSE 0)
          /\ jc.pc \in {"operators", "hamiltonian", "collapse", "solve", "return"} =>
                script.pc = "in_call"
    /\ (script.pc = "in_call" /\ jc.pc = "operators") =>
          jc.H = NoQobj /\ jc.c_op_list = <<>> /\ jc.output = NoOutput
    /\ (script.pc = "in_call" /\ jc.pc = "solve") =>
          /\ jc.H = jc_H(jc_a(ScriptN), jc_sm(ScriptN), ScriptWc, ScriptWa, ScriptG, TRUE)
          /\ jc.c_op_list = <<QScale(FxSqrt(ScriptKappa), jc_a(ScriptN)),
                              QScale(FxSqrt(ScriptGamma), jc_sm(ScriptN))>>
    /\ script.pc = "plot" =>
          /\ script.n = Repeats
          /\ Len(calls) = Repeats
          /\ jc.pc = "done"
          /\ script.nc = jc.output.expect[1]
          /\ script.na = jc.output.expect[2]

C10_Witness ==
    /\ script.pc = "plot"
    /\ script.nc[2] = NumOne
    /\ script.na[2] = NumZero

CmpSweepPcs == {"loop", "collapse", "steadystate", "write_r", "write_m", "return",
                "done", "raised"}

CmpRowWritten(i, n) == \A c \in 1..4 : cmp.writes[i][c] = n

\* C2: the table has one row per sweep point and 4 columns from before the
\* sweep on; when compute returns every row was written exactly once and
\* columns 1 and 3 of row idx are the Bose occupations recomputed from
\* T_vec[idx] with w_r and w_m.
C2_TableRows ==
    /\ cmp.pc \in CmpSweepPcs =>
          /\ Len(cmp.photon_count) = Len(cmp.T_vec)
          /\ \A i \in DOMAIN cmp.photon_count : Len(cmp.photon_count[i]) = 4
    /\ cmp.pc = "done" =>
          /\ cmp.ret = cmp.photon_count
          /\ Len(cmp.ret) = Len(cmp.T_vec)
          /\ \A i \in DOMAIN cmp.T_vec :
                /\ CmpRowWritten(i, 1)
                /\ cmp.ret[i][2] = Val(cmp_bose(cmp.w_r, cmp_w_th(cmp.T_vec[i])))
                /\ cmp.ret[i][4] = Val(cmp_bose(cmp.w_m, cmp_w_th(cmp.T_vec[i])))

C2_Witness ==
    /\ cmp.pc = "done"
    /\ cmp.T_vec = <<5000, 2500, 5000>>
    /\ cmp.w_r = 314
    /\ cmp.ret[1][2] = Val(166) /\ cmp.ret[2][2] = Val(64) /\ cmp.ret[2][4] = Val(166)

\* Calls of the steady-state solver are made once per sweep point, in
\* increasing order, each after the rows of the earlier points were written.
CmpInOrder ==
    /\ calls = [j \in 1..Len(calls) |-> cmp_solver_call(j - 1)]
    /\ cmp.pc \in {"collapse", "steadystate", "write_r", "write_m", "raised"} =>
          /\ Len(calls) = cmp.idx + (IF cmp.pc \in {"collapse", "steadystate"} THEN 0 ELSE 1)
          /\ \A i \in DOMAIN cmp.T_vec : i < cmp.idx + 1 => CmpRowWritten(i, 1)
          /\ \A i \in DOMAIN cmp.T_vec : i > cmp.idx + 1 => CmpRowWritten(i, 0)

\* C3 as stated: a failure of the steady-state solve or of an expectation
\* value call at sweep point k propagates: no table is returned, no solver
\* call is made for a later point, rows k and later are never written, and
\* the points before k were solved and written in order.
C3_AbortNoRowK ==
    /\ CmpInOrder
    /\ cmp.pc = "raised" =>
          /\ cmp.ret = <<>>
          /\ \A i \in DOMAIN cmp.T_vec : i >= cmp.idx + 1 => CmpRowWritten(i, 0)

\* C3 amended: as above, but row k itself holds columns 0 and 1 when it is
\* the second expectation value call (line 62) that fails; columns 2 and 3
\* of row k and all later rows are never written.
C3_AbortAtPoint ==
    /\ CmpInOrder
    /\ cmp.pc = "raised" =>
          /\ cmp.ret = <<>>
          /\ cmp.raised_at \in {57, 60, 62}
          /\ \A i \in DOMAIN cmp.T_vec : i > cmp.idx + 1 => CmpRowWritten(i, 0)
          /\ cmp.writes[cmp.idx + 1] =
                (IF cmp.raised_at = 62 THEN <<1, 1, 0, 0>> ELSE <<0, 0, 0, 0>>)
    /\ cmp.pc \in {"done", "return"} => cmp.raised_at = 0

C3_Witness ==
    /\ cmp.pc = "raised"
    /\ cmp.raised_at = 62
    /\ Len(cmp.T_vec) = 3
    /\ cmp.idx = 1
    /\ Len(calls) = 2
    /\ cmp.writes = <<<<1, 1, 1, 1>>, <<1, 1, 0, 0>>, <<0, 0, 0, 0>>>>

\* The row of a sweep point as a function of its temperature and the fixed
\* parameters alone
CmpRowFor(T) ==
    LET a == cmp_a(cmp.N_r, cmp.N_m)
        b == cmp_b(cmp.N_r, cmp.N_m)
        H == cmp_H(a, b, cmp.w_r, cmp.w_m, cmp.g, cmp.w_d, cmp.A)
        n_r == cmp_bose(cmp.w_r, cmp_w_th(T))
        n_m == cmp_bose(cmp.w_m, cmp_w_th(T))
        rho == steadystate(H, cmp_collapse(<<>>, a, b, cmp.kappa_r, cmp.kappa_m, n_r, n_m))
    IN  <<expect_rho(rho, QMul(dag(a), a)), Val(n_r), expect_rho(rho, QMul(dag(b), b)), Val(n_m)>>

\* C4: sweep points are independent: the collapse list of a point is built
\* from empty from that point's temperature, H, a and b stay as built before
\* the loop, and a written row is a function of T_vec[idx] and the fixed
\* parameters only.
C4_PointsIndependent ==
    /\ cmp.pc \in {"loop", "return", "done", "raised"} =>
          /\ cmp.a = cmp_a(cmp.N_r, cmp.N_m)
          /\ cmp.b = cmp_b(cmp.N_r, cmp.N_m)
          /\ cmp.H = cmp_H(cmp.a, cmp.b, cmp.w_r, cmp.w_m, cmp.g, cmp.w_d, cmp.A)
    /\ (cmp.pc = "loop" /\ cmp.it > 0) =>
          cmp.photon_count[cmp.idx + 1] = CmpRowFor(cmp.T_vec[cmp.idx + 1])
    /\ cmp.pc = "done" =>
          \A i \in DOMAIN cmp.T_vec : cmp.ret[i] = CmpRowFor(cmp.T_vec[i])
    /\ cmp.pc \in {"steadystate", "write_r", "write_m"} =>
          LET n_r == cmp_bose(cmp.w_r, cmp_w_th(cmp.T_vec[cmp.idx + 1]))
              n_m == cmp_bose(cmp.w_m, cmp_w_th(cmp.T_vec[cmp.idx + 1]))
          IN  /\ Len(cmp.c_ops) <= 4
              /\ cmp.c_ops = cmp_collapse(<<>>, cmp.a, cmp.b, cmp.kappa_r, cmp.kappa_m,
                                          n_r, n_m)

C4_Witness ==
    /\ cmp.pc = "loop"
    /\ cmp.T_vec = <<5000, 0>>
    /\ cmp.kappa_r = 5
    /\ CmpRowWritten(2, 1)
    /\ Len(cmp.c_ops) = 2

\* The Pauli operators at chain position n of N: identity on the other
\* positions, position 0 the most significant bit of the basis index
SiteBit(i, n, N) == (i \div Pow2(N - 1 - n)) % 2

SiteFlip(i, n, N) == IF SiteBit(i, n, N) = 0 THEN i + Pow2(N - 1 - n) ELSE i - Pow2(N - 1 - n)

ChainStates(N) == 0..(Pow2(N) - 1)

SxAt(n, N) ==
    Qobj(Pow2(N), Pow2(N),
         [p \in {<<i, SiteFlip(i, n, N)>> : i \in ChainStates(N)} |-> NumOne])

SyAt(n, N) ==
    Qobj(Pow2(N), Pow2(N),
         [p \in {<<i, SiteFlip(i, n, N)>> : i \in ChainStates(N)} |->
             IF SiteBit(p[1], n, N) = 0 THEN NumScale(-1, NumI) ELSE NumI])

SzAt(n, N) ==
    Qobj(Pow2(N), Pow2(N),
         [p \in {<<i, i>> : i \in ChainStates(N)} |->
             IF SiteBit(p[1], n, N) = 0 THEN NumOne ELSE NumInt(-1)])

RECURSIVE QSum(_)
QSum(terms) ==
    IF Len(terms) = 1 THEN terms[1]
    ELSE QAdd(QSum(SubSeq(terms, 1, Len(terms) - 1)), terms[Len(terms)])

\* The N on-site terms and the 3*(N-1) nearest-neighbour terms of the open chain
ChainTerms(N, h, Jx, Jy, Jz) ==
    [n \in 1..N |-> QScale(FxMul(-50, h[n]), SzAt(n - 1, N))]
    \o [k \in 1..(3 * (N - 1)) |->
          LET n == (k - 1) \div 3
          IN  IF (k - 1) % 3 = 0
              THEN QScale(FxMul(-50, Jx[n + 1]), QMul(SxAt(n, N), SxAt(n + 1, N)))
              ELSE IF (k - 1) % 3 = 1
              THEN QScale(FxMul(-50, Jy[n + 1]), QMul(SyAt(n, N), SyAt(n + 1, N)))
              ELSE QScale(FxMul(-50, Jz[n + 1]), QMul(SzAt(n, N), SzAt(n + 1, N)))]

\* C6: the Hamiltonian of integrate is the sum of the N on-site terms
\* -0.5*h[n]*sz(n) and the 3*(N-1) nearest-neighbour terms of the open chain,
\* with sx(n), sy(n), sz(n) the Pauli operators at position n; nothing couples
\* site N-1 to site 0 and Jx[N-1], Jy[N-1], Jz[N-1] do not enter.
C6_OpenChain ==
    chain.pc = "collapse" =>
       /\ \A n \in 1..chain.N :
             /\ chain.sx_list[n] = SxAt(n - 1, chain.N)
             /\ chain.sy_list[n] = SyAt(n - 1, chain.N)
             /\ chain.sz_list[n] = SzAt(n - 1, chain.N)
       /\ Len(ChainTerms(chain.N, chain.h, chain.Jx, chain.Jy, chain.Jz)) = 4 * chain.N - 3
       /\ chain.H = QSum(ChainTerms(chain.N, chain.h, chain.Jx, chain.Jy, chain.Jz))
       /\ \A v \in {0, 77} :
             chain.H = chain_H(chain.N, chain.h,
                               [chain.Jx EXCEPT ![chain.N] = v],
                               [chain.Jy EXCEPT ![chain.N] = v],
                               [chain.Jz EXCEPT ![chain.N] = v],
                               chain.sx_list, chain.sy_list, chain.sz_list)

C6_Witness ==
    /\ chain.pc = "collapse"
    /\ chain.N = 3
    /\ chain.h = <<100, 200, 300>>
    /\ chain.Jx = <<10, 20, 30>>
    /\ chain.Jy = <<20, 40, 60>>
    /\ chain.Jz = <<30, 60, 90>>
    /\ <<0, 6>> \in DOMAIN chain.H.data
    /\ <<0, 5>> \notin DOMAIN chain.H.data

\* C9: integrate calls exactly one solver for solver = "ode" (the
\* deterministic solver) or "mc" (the stochastic solver, 250 trajectories)
\* and returns its output; for any other value it calls no solver and fails
\* at the return instead of returning a result.
C9_SolverDispatch ==
    /\ chain.pc \in {"return", "done", "raised"} =>
          /\ chain.solver = "ode" =>
                /\ Len(calls) = 1
                /\ calls[1].solver = "me_ode_solve"
                /\ calls[1].ntraj = <<>>
          /\ chain.solver = "mc" =>
                /\ Len(calls) = 1
                /\ calls[1].solver = "mcsolve"
                /\ calls[1].ntraj = <<250>>
          /\ chain.solver \notin {"ode", "mc"} => calls = <<>> /\ chain.expt_list = <<>>
    /\ chain.pc = "done" =>
          /\ chain.solver \in {"ode", "mc"}
          /\ chain.ret = chain.expt_list
          /\ Len(chain.ret) = 1
          /\ chain.ret[1].by = calls[1].solver
    /\ chain.pc = "raised" => chain.solver \notin {"ode", "mc"} /\ chain.ret = <<>>

C9_Witness ==
    /\ chain.pc = "raised"
    /\ chain.solver = "rk"
    /\ calls = <<>>

====
